---- MODULE Spec2Model ----
(***************************************************************************)
(* Model of magma's network client sessions (src/network/clients.c):       *)
(* client_connect, client_status, client_secure and client_close acting on *)
(* one caller-held client_t pointer, together with the operating-system    *)
(* and heap resources the session owns.                                    *)
(***************************************************************************)
EXTENDS Integers, Sequences, FiniteSets, TLC

\* ------------------------------------------------------------------ bounds

\* The longest address list getaddrinfo hands to client_connect.
MaxCands == 2
\* How many times the caller calls client_connect in one run.
MaxConnects == 2
\* How many client_close calls the caller issues on one session pointer.
MaxCloses == 2

\* --------------------------------------------------------------- constants

\* The NULL pointer (no TLS context, no peer address, no buffer).
NULL == 0
\* The invalid socket descriptor sentinel.
NoSock == -1

\* client_t.status values: -1 error, 0 unknown, 1 connected, 2 graceful shutdown.
StatusVals == {-1, 0, 1, 2}
\* What tcp_status / tls_status report for a transport that was closed or reset.
ProbeBad == {-1, 1}
\* All results of a liveness probe; 0 is the neutral result.
ProbeVals == {0} \cup ProbeBad

VARIABLES
    client,     \* the client_t the caller's pointer refers to, and its memory state
    rel,        \* how many times each resource of the current session was released
    ntls,       \* TLS contexts constructed over the current session's descriptor
    tcpDown,    \* the peer closed or reset the TCP connection
    tlsDown,    \* the peer shut the TLS layer down
    gen,        \* client_connect calls made so far
    call,       \* the last call: operation, argument, session before it, result
    sc,         \* the SMTP check function in progress: its position and what it saw
    crashed     \* the process dereferenced a NULL pointer

vars == <<client, rel, ntls, tcpDown, tlsDown, gen, call, sc, crashed>>

\* ------------------------------------------------------------------ state

\* A client_t: mem is "none" while the caller holds NULL, "live" for an
\* allocated session and "freed" after mm_free(client).
NoClient ==
    [mem |-> "none", sockd |-> NoSock, status |-> -1, tls |-> NULL, ip |-> NULL, buffer |-> NULL]

NoRel == [tls |-> 0, sockd |-> 0, ip |-> 0, buffer |-> 0, client |-> 0]

\* The bookkeeping of one client_connect call: the sockets it created (numbered
\* 1..created in creation order), the candidates it tried, the close() calls each
\* socket received, and the allocations it made and released.  info tells whether
\* getaddrinfo returned a list, untried whether the call left a record of that
\* list untried; kinds[k] is what the candidate of attempts[k] did.
NoConn ==
    [info |-> FALSE, untried |-> FALSE, kinds |-> <<>>,
     early |-> FALSE, created |-> 0, attempts |-> <<>>, closes |-> <<>>,
     freeaddr |-> 0, ipAlloc |-> 0, ipFree |-> 0, objAlloc |-> 0, objFree |-> 0,
     sd |-> NoSock, ret |-> 0, ip |-> NULL, session |-> FALSE]

NoCall ==
    [op |-> "init", arg |-> "null", pre |-> NoClient, ret |-> 0,
     tlsAsked |-> FALSE, tlsP |-> 0, tcpAsked |-> FALSE, tcpP |-> 0,
     tlsAlloc |-> "none", trace |-> <<>>, conn |-> NoConn]

\* -------------------------------------------------------------- client_status

\* Lines 17-21: the first assignment of result, overwritten by every branch below.
status_first(c) == IF c.sockd # NoSock THEN c.status ELSE -1

\* Does line 24 reach the call of tls_status?
status_probes_tls(c) == c.tls # NULL /\ c.status >= 0

\* Does line 28 reach the call of tcp_status?  Only when line 24 is false.
status_probes_tcp(c, tlsP) ==
    /\ ~(status_probes_tls(c) /\ tlsP = 0)
    /\ c.sockd # NoSock /\ c.status >= 0

\* client_status marking the session connected on a neutral probe.
status_result_reconnects(c, tlsP, tcpP) ==
    IF c.tls # NULL /\ tlsP = 0
    THEN [ret |-> 1, status |-> 1]
    ELSE IF c.sockd # NoSock /\ tcpP = 0
    THEN [ret |-> 1, status |-> 1]
    ELSE [ret |-> -1, status |-> -1]

\* client_status taking a non-zero probe result for the neutral one.
status_result_no_negation(c, tlsP, tcpP) ==
    IF c.tls # NULL /\ c.status >= 0 /\ tlsP # 0
    THEN [ret |-> c.status, status |-> c.status]
    ELSE IF c.sockd # NoSock /\ c.status >= 0 /\ tcpP # 0
    THEN [ret |-> c.status, status |-> c.status]
    ELSE [ret |-> -1, status |-> -1]

\* Lines 24-36: the result and the status left in the client_t.
status_result(c, tlsP, tcpP) ==
    IF c.tls # NULL /\ c.status >= 0 /\ tlsP = 0
    THEN [ret |-> c.status, status |-> c.status]
    ELSE IF c.sockd # NoSock /\ c.status >= 0 /\ tcpP = 0
    THEN [ret |-> c.status, status |-> c.status]
    ELSE [ret |-> -1, status |-> -1]

\* -------------------------------------------------------------- client_secure

\* tls_client_alloc(sockd): NULL, or a new context over a valid descriptor.
tls_client_alloc(sockd, fresh) ==
    IF sockd = NoSock THEN {NULL} ELSE {NULL, fresh}

\* client_secure constructing a context although the session has one.
secure_result_realloc(c, ctx) ==
    IF ctx = NULL
    THEN [ret |-> -1, tls |-> NULL, status |-> -1, alloc |-> "failed"]
    ELSE [ret |-> 0, tls |-> ctx, status |-> 1, alloc |-> "made"]

\* client_secure without line 55: a failed construction leaves the status.
secure_result_keeps_status(c, ctx) ==
    IF c.tls # NULL
    THEN [ret |-> 0, tls |-> c.tls, status |-> c.status, alloc |-> "none"]
    ELSE IF ctx = NULL
    THEN [ret |-> -1, tls |-> NULL, status |-> c.status, alloc |-> "failed"]
    ELSE [ret |-> 0, tls |-> ctx, status |-> 1, alloc |-> "made"]

\* client_secure without line 59: a successful construction leaves the status.
secure_result_no_connected(c, ctx) ==
    IF c.tls # NULL
    THEN [ret |-> 0, tls |-> c.tls, status |-> c.status, alloc |-> "none"]
    ELSE IF ctx = NULL
    THEN [ret |-> -1, tls |-> NULL, status |-> -1, alloc |-> "failed"]
    ELSE [ret |-> 0, tls |-> ctx, status |-> c.status, alloc |-> "made"]

\* Lines 50-61 for a non-NULL client; ctx is what tls_client_alloc returned
\* (the call is made only on the path that reports alloc as failed or made).
secure_result(c, ctx) ==
    IF c.tls # NULL
    THEN [ret |-> 0, tls |-> c.tls, status |-> c.status, alloc |-> "none"]
    ELSE IF ctx = NULL
    THEN [ret |-> -1, tls |-> NULL, status |-> -1, alloc |-> "failed"]
    ELSE [ret |-> 0, tls |-> ctx, status |-> 1, alloc |-> "made"]

\* --------------------------------------------------------------- client_close

\* One release statement of client_close: when cond holds, resource res is
\* released once more and the event is appended to the call's trace.
release(s, cond, name, res) ==
    IF cond
    THEN [rel |-> [s.rel EXCEPT ![res] = @ + 1],
          trace |-> Append(s.trace, [op |-> name, fdOpen |-> s.rel.sockd = 0])]
    ELSE s

\* client_close closing the descriptor before it tears the TLS context down.
close_effects_socket_first(c, rel0) ==
    LET s0 == [rel |-> rel0, trace |-> <<>>]
        s1 == release(s0, c.sockd # NoSock, "close", "sockd")
        s2 == release(s1, c.tls # NULL, "tls_free", "tls")
        s3 == release(s2, c.ip # NULL, "mm_cleanup", "ip")
        s4 == release(s3, c.buffer # NULL, "st_cleanup", "buffer")
    IN  release(s4, TRUE, "mm_free", "client")

\* Lines 173-183 for a non-NULL client whose fields read as c.
close_effects(c, rel0) ==
    LET s0 == [rel |-> rel0, trace |-> <<>>]
        s1 == release(s0, c.tls # NULL, "tls_free", "tls")
        s2 == release(s1, c.sockd # NoSock, "close", "sockd")
        s3 == release(s2, c.ip # NULL, "mm_cleanup", "ip")
        s4 == release(s3, c.buffer # NULL, "st_cleanup", "buffer")
    IN  release(s4, TRUE, "mm_free", "client")

\* -------------------------------------------------------------- client_connect

\* What one address record of the resolver's list does: socket() fails, connect()
\* is refused, or connect() succeeds to an IPv4, IPv6 or unrecognised address.
CandKinds == {"nosock", "refuse", "v4", "v6", "other"}

\* Lines 86-91: getaddrinfo failed ("error"), returned no list ("empty"), returned
\* a list that is not SOCK_STREAM ("notstream"), or resolved ("ok").
ResolveKinds == {"error", "empty", "notstream", "ok"}

RECURSIVE connect_loop_keeps_going(_, _, _, _)
\* The candidate loop advancing to the next record after a successful connect.
connect_loop_keeps_going(cands, i, st, ipOk) ==
    IF i > Len(cands) THEN st
    ELSE IF cands[i] = "nosock"
    THEN [st EXCEPT !.early = TRUE, !.sd = NoSock, !.freeaddr = @ + 1]
    ELSE
        LET sd == st.created + 1
            s1 == [st EXCEPT !.created = sd, !.sd = sd, !.kinds = Append(@, cands[i]),
                             !.attempts = Append(@, i), !.closes = Append(@, 0)]
        IN  IF cands[i] = "refuse"
            THEN connect_loop_keeps_going(cands, i + 1,
                              [s1 EXCEPT !.ret = -1, !.closes[sd] = @ + 1], ipOk)
            ELSE connect_loop_keeps_going(cands, i + 1, [s1 EXCEPT !.ret = 0], ipOk)

RECURSIVE connect_loop(_, _, _, _)
\* Lines 97-137: the candidate loop, holder at cands[i]; ipOk is mm_alloc(ip_t).
connect_loop(cands, i, st, ipOk) ==
    IF i > Len(cands) THEN st
    ELSE IF cands[i] = "nosock"
    THEN [st EXCEPT !.early = TRUE, !.sd = NoSock, !.freeaddr = @ + 1]
    ELSE
        LET sd == st.created + 1
            s1 == [st EXCEPT !.created = sd, !.sd = sd, !.kinds = Append(@, cands[i]),
                             !.attempts = Append(@, i), !.closes = Append(@, 0)]
        IN  IF cands[i] = "refuse"
            THEN connect_loop(cands, i + 1,
                              [s1 EXCEPT !.ret = -1, !.closes[sd] = @ + 1], ipOk)
            ELSE IF ~ipOk
            THEN [s1 EXCEPT !.ret = 0, !.ip = NULL]
            ELSE IF cands[i] \in {"v4", "v6"}
            THEN [s1 EXCEPT !.ret = 0, !.ip = 1, !.ipAlloc = @ + 1]
            ELSE [s1 EXCEPT !.ret = 0, !.ip = NULL, !.ipAlloc = @ + 1, !.ipFree = @ + 1]

\* client_connect returning on an allocation failure without close(sd).
connect_finish_leaks_socket(st, objOk, bufOk) ==
    IF st.early THEN st
    ELSE
        LET s1 == [st EXCEPT !.freeaddr = @ + 1]
            held == IF s1.ip # NULL THEN 1 ELSE 0
        IN  IF s1.ret # 0
            THEN [s1 EXCEPT !.closes[s1.sd] = @ + 1]
            ELSE IF ~objOk
            THEN [s1 EXCEPT !.ipFree = @ + held, !.ip = NULL]
            ELSE IF ~bufOk
            THEN [s1 EXCEPT !.objAlloc = @ + 1, !.objFree = @ + 1,
                            !.ipFree = @ + held, !.ip = NULL]
            ELSE [s1 EXCEPT !.objAlloc = @ + 2, !.session = TRUE]

\* Lines 140-161: after the loop; objOk is mm_alloc(client_t), bufOk is st_alloc.
connect_finish(st, objOk, bufOk) ==
    IF st.early THEN st
    ELSE
        LET s1 == [st EXCEPT !.freeaddr = @ + 1]
            held == IF s1.ip # NULL THEN 1 ELSE 0
        IN  IF s1.ret # 0
            THEN [s1 EXCEPT !.closes[s1.sd] = @ + 1]
            ELSE IF ~objOk
            THEN [s1 EXCEPT !.ipFree = @ + held, !.ip = NULL, !.closes[s1.sd] = @ + 1]
            ELSE IF ~bufOk
            THEN [s1 EXCEPT !.objAlloc = @ + 1, !.objFree = @ + 1,
                            !.ipFree = @ + held, !.ip = NULL, !.closes[s1.sd] = @ + 1]
            ELSE [s1 EXCEPT !.objAlloc = @ + 2, !.session = TRUE]

\* Lines 70-162: the whole call.
connect_result(resolve, cands, ipOk, objOk, bufOk) ==
    IF resolve = "notstream"
    THEN [NoConn EXCEPT !.info = TRUE, !.untried = TRUE, !.freeaddr = 1]
    ELSE IF resolve # "ok" THEN NoConn
    ELSE LET st == connect_loop(cands, 1, [NoConn EXCEPT !.info = TRUE], ipOk)
             tried == Len(st.kinds) + (IF st.early THEN 1 ELSE 0)
         IN  connect_finish([st EXCEPT !.untried = tried < Len(cands)], objOk, bufOk)

\* Lines 156-159: the client_t handed to the caller.
connect_session(r) ==
    IF r.session
    THEN [mem |-> "live", sockd |-> r.sd, status |-> 1, tls |-> NULL,
          ip |-> r.ip, buffer |-> 1]
    ELSE NoClient

\* The address lists getaddrinfo can return: one to MaxCands records.
CandLists == UNION {[1..n -> CandKinds] : n \in 1..MaxCands}

\* One client_connect call: what the resolver, the sockets and the allocator did.
ConnectInputs ==
    [resolve : ResolveKinds, cands : CandLists, ipOk : BOOLEAN, objOk : BOOLEAN,
     bufOk : BOOLEAN]

\* Every outcome of a client_connect call, over all its inputs.
ConnectResults ==
    {connect_result(in.resolve, in.cands, in.ipOk, in.objOk, in.bufOk) : in \in ConnectInputs}

\* ------------------------------------------------------------ the environment

\* tls_status(tls) on a live session: neutral unless the TLS layer was shut down.
tls_status(down) == IF down THEN ProbeBad ELSE {0}

\* tcp_status(sockd) on a live session: neutral unless the connection was reset.
tcp_status(down) == IF down THEN ProbeBad ELSE {0}

\* What a read of the client_t through the caller's pointer yields.  A live
\* session reads as stored.  After mm_free(client) the pointer dangles: every
\* field reads either as the stale value or as whatever now occupies the memory.
\* reads names the fields the called function reads.
Views(c, reads) ==
    IF c.mem # "freed" THEN {c}
    ELSE [mem : {"freed"},
          sockd : IF "sockd" \in reads THEN {NoSock, c.sockd} ELSE {c.sockd},
          status : IF "status" \in reads THEN StatusVals ELSE {c.status},
          tls : IF "tls" \in reads THEN {NULL, c.tls} ELSE {c.tls},
          ip : IF "ip" \in reads THEN {NULL, c.ip} ELSE {c.ip},
          buffer : IF "buffer" \in reads THEN {NULL, c.buffer} ELSE {c.buffer}]

\* The results of the liveness probes a client_status call evaluates: as the
\* transport dictates on a live session, anything through a dangling pointer.
TlsProbes(c, view) ==
    IF ~status_probes_tls(view) THEN {0}
    ELSE IF c.mem = "live" THEN tls_status(tlsDown) ELSE ProbeVals

TcpProbes(c, view, tlsP) ==
    IF ~status_probes_tcp(view, tlsP) THEN {0}
    ELSE IF c.mem = "live" THEN tcp_status(tcpDown) ELSE ProbeVals

\* The pointer values a caller can pass: NULL, or the pointer it holds.
Args(c) == IF c.mem = "none" THEN {"null"} ELSE {"null", "ptr"}

\* The record of a call: pre is the client_t as stored before the call.
Record(op, arg, pre) == [NoCall EXCEPT !.op = op, !.arg = arg, !.pre = pre]

\* -------------------------------------------------------------------- actions

\* client_t * client_connect(chr_t *host, uint32_t port)
client_connect ==
    /\ ~crashed
    /\ client.mem # "live"
    /\ gen < MaxConnects
    /\ \E r \in ConnectResults :
        /\ client' = connect_session(r)
        /\ call' = [Record("connect", "null", NoClient) EXCEPT !.conn = r,
                        !.ret = IF r.session THEN 1 ELSE 0]
    /\ rel' = NoRel
    /\ ntls' = 0
    /\ tcpDown' = FALSE
    /\ tlsDown' = FALSE
    /\ gen' = gen + 1
    /\ UNCHANGED crashed
    /\ UNCHANGED sc

\* int_t client_status(client_t *client)
client_status ==
    /\ ~crashed
    /\ \E arg \in Args(client) :
        IF arg = "null"
        THEN \* line 33 writes through the NULL pointer
             /\ crashed' = TRUE
             /\ call' = Record("status", arg, NoClient)
             /\ UNCHANGED client
        ELSE \E view \in Views(client, {"sockd", "status", "tls"}) :
             \E tlsP \in TlsProbes(client, view) :
             \E tcpP \in TcpProbes(client, view, tlsP) :
             LET r == status_result(view, tlsP, tcpP) IN
             /\ client' = IF client.mem = "live"
                          THEN [client EXCEPT !.status = r.status]
                          ELSE client
             /\ call' = [Record("status", arg, client) EXCEPT !.ret = r.ret,
                             !.tlsAsked = status_probes_tls(view), !.tlsP = tlsP,
                             !.tcpAsked = status_probes_tcp(view, tlsP), !.tcpP = tcpP]
             /\ UNCHANGED crashed
    /\ UNCHANGED <<rel, ntls, tcpDown, tlsDown, gen>>
    /\ UNCHANGED sc

\* int_t client_secure(client_t *client)
client_secure ==
    /\ ~crashed
    /\ \E arg \in Args(client) :
        IF arg = "null"
        THEN /\ call' = [Record("secure", arg, NoClient) EXCEPT !.ret = -1]
             /\ UNCHANGED <<client, ntls, tlsDown>>
        ELSE \E view \in Views(client, {"sockd", "tls"}) :
             \E ctx \in tls_client_alloc(view.sockd, ntls + 1) :
             LET r == secure_result(view, ctx) IN
             /\ call' = [Record("secure", arg, client) EXCEPT !.ret = r.ret,
                             !.tlsAlloc = r.alloc]
             /\ IF client.mem = "live"
                THEN /\ client' = [client EXCEPT !.tls = r.tls, !.status = r.status]
                     /\ ntls' = IF r.alloc = "made" THEN ntls + 1 ELSE ntls
                     /\ tlsDown' = IF r.alloc = "made" THEN FALSE ELSE tlsDown
                ELSE UNCHANGED <<client, ntls, tlsDown>>
    /\ UNCHANGED <<rel, tcpDown, gen, crashed>>
    /\ UNCHANGED sc

\* void client_close(client_t *client)
client_close ==
    /\ ~crashed
    /\ \E arg \in Args(client) :
        IF arg = "null"
        THEN /\ call' = Record("close", arg, NoClient)
             /\ UNCHANGED <<client, rel>>
        ELSE \E view \in Views(client, {"sockd", "tls", "ip", "buffer"}) :
             LET r == close_effects(view, rel) IN
             /\ rel.client < MaxCloses
             /\ call' = [Record("close", arg, client) EXCEPT !.trace = r.trace]
             /\ rel' = r.rel
             /\ client' = [client EXCEPT !.mem = "freed"]
    /\ UNCHANGED <<ntls, tcpDown, tlsDown, gen, crashed>>
    /\ UNCHANGED sc

\* int64_t client_read_line(client_t *client): the length of the line read, 0 on
\* an orderly shutdown, negative on error.
client_read_line ==
    /\ ~crashed
    /\ client.mem = "live"
    /\ \E n \in {-1, 0, 1} :
        call' = [Record("read", "ptr", client) EXCEPT !.ret = n]
    /\ UNCHANGED <<client, rel, ntls, tcpDown, tlsDown, gen, crashed>>
    /\ UNCHANGED sc

\* int64_t client_write(client_t *client, stringer_t *s): the bytes written, or
\* negative on error.
client_write ==
    /\ ~crashed
    /\ client.mem = "live"
    /\ \E n \in {-1, 0, 1} :
        call' = [Record("write", "ptr", client) EXCEPT !.ret = n]
    /\ UNCHANGED <<client, rel, ntls, tcpDown, tlsDown, gen, crashed>>
    /\ UNCHANGED sc

\* The peer closes or resets the TCP connection.
peer_reset ==
    /\ ~crashed
    /\ client.mem = "live" /\ ~tcpDown
    /\ tcpDown' = TRUE
    /\ call' = Record("peer_reset", "null", client)
    /\ UNCHANGED <<client, rel, ntls, tlsDown, gen, crashed>>
    /\ UNCHANGED sc

\* The peer shuts the TLS layer down.
peer_tls_shutdown ==
    /\ ~crashed
    /\ client.mem = "live" /\ client.tls # NULL /\ ~tlsDown
    /\ tlsDown' = TRUE
    /\ call' = Record("peer_tls_shutdown", "null", client)
    /\ UNCHANGED <<client, rel, ntls, tcpDown, gen, crashed>>
    /\ UNCHANGED sc

\* No check function is running.
NoScenario ==
    [fn |-> "none", flag |-> FALSE, pc |-> 0, ret |-> "none",
     errptr |-> "buf", errmsg |-> "", reads |-> <<>>, used |-> 0, hist |-> <<>>]

\* ------------------------------------------------------------- specifications

\* Before the first client_connect the caller holds no session.
Init ==
    /\ client = NoClient
    /\ rel = NoRel
    /\ ntls = 0
    /\ tcpDown = FALSE
    /\ tlsDown = FALSE
    /\ gen = 0
    /\ call = NoCall
    /\ sc = NoScenario
    /\ crashed = FALSE

Next ==
    \/ client_connect
    \/ client_status
    \/ client_secure
    \/ client_close
    \/ client_read_line
    \/ client_write
    \/ peer_reset
    \/ peer_tls_shutdown

Spec == Init /\ [][Next]_vars

\* The client_t values client_status and client_secure accept as their argument.
ClientInputs ==
    [mem : {"live"}, sockd : {NoSock, 1}, status : StatusVals,
     tls : {NULL, 1}, ip : {NULL, 1}, buffer : {1}]

\* The caller holds any client_t, over any condition of the transport.
InitFn ==
    /\ client \in ClientInputs
    /\ rel = NoRel
    /\ ntls = (IF client.tls # NULL THEN 1 ELSE 0)
    /\ tcpDown \in BOOLEAN
    /\ tlsDown \in BOOLEAN
    /\ gen = 0
    /\ call = NoCall
    /\ sc = NoScenario
    /\ crashed = FALSE

SpecFn == InitFn /\ [][Next]_vars

\* ------------------------------------------------------------------ SMTP text

\* st_cmp_cs_starts(s, t) == 0: the bytes of t open s.
StartsWith(s, t) == Len(s) >= Len(t) /\ SubSeq(s, 1, Len(t)) = t

\* st_search_cs(s, t, &location): t occurs in s.
Contains(s, t) == \E i \in 1..(Len(s) - Len(t) + 1) : SubSeq(s, i, i + Len(t) - 1) = t

\* Response lines a server can send, byte by byte.
LineBanner == <<"2", "2", "0", " ", "E", "S", "M", "T", "P", " ", "\r", "\n">>
LineReady == <<"2", "2", "0", " ", "h", "i", "\r", "\n">>
LineOk == <<"2", "5", "0", " ", "O", "K", "\r", "\n">>
LineMore == <<"2", "5", "0", "-", "A", "\r", "\n">>
LineData == <<"3", "5", "4", " ", "g", "o", "\r", "\n">>
LineBye == <<"2", "2", "1", " ", "b", "y", "e", "\r", "\n">>
LineAuthed == <<"2", "3", "5", " ", "o", "k", "\r", "\n">>
LinePrompt == <<"3", "3", "4", " ", "x", "\r", "\n">>
LineDenied == <<"5", "3", "5", " ", "n", "o", "\r", "\n">>
LineRelay == <<"5", "5", "0", " ", "n", "o", "\r", "\n">>
LineEmpty == <<"\r", "\n">>

\* The lines of at least four bytes.
Lines ==
    {LineBanner, LineReady, LineOk, LineMore, LineData, LineBye, LineAuthed, LinePrompt,
     LineDenied, LineRelay}

\* The lines shorter than four bytes.
ShortLines == {LineEmpty}

\* What the read buffer holds after a short line: the bytes received behind it,
\* or those an earlier read left there.
Rests == {<<"a", " ">>, <<"a", "b">>}

\* What one client_read_line call yields: n is its result (the length of the
\* line, 0 on an orderly shutdown, negative on an error), line the bytes
\* client->line views, and buf the read buffer from the start of that view on.
ReadFailed == [n |-> -1, line |-> <<>>, buf |-> <<>>]
ReadShutdown == [n |-> 0, line |-> <<>>, buf |-> <<>>]
ReadOutcomes ==
    {ReadFailed, ReadShutdown}
    \cup {[n |-> Len(l), line |-> l, buf |-> l] : l \in Lines}
    \cup {[n |-> Len(l), line |-> l, buf |-> l \o r] : l \in ShortLines, r \in Rests}

\* How many client_read_line calls one script of reads answers.
MaxReads == 3

\* The scripts of reads: what the coming client_read_line calls will yield.
ReadScripts == UNION {[1..n -> ReadOutcomes] : n \in 1..MaxReads}

\* ------------------------------------------------- check_smtp_client_read_end

\* Line 20: pl_char_get(client->line)[3], the byte three past the start of the
\* line view, which lies in the read buffer whatever the length of the line.
line_byte3(rd) == rd.buf[4]

RECURSIVE read_end(_, _)
\* Lines 17-23: the loop from its k-th client_read_line call on.  done is FALSE
\* when the loop is still reading after the script's last read.
read_end(reads, k) ==
    IF k > Len(reads) THEN [done |-> FALSE, ret |-> FALSE, used |-> k - 1]
    ELSE IF reads[k].n <= 0 THEN [done |-> TRUE, ret |-> FALSE, used |-> k]
    ELSE IF line_byte3(reads[k]) = " " THEN [done |-> TRUE, ret |-> TRUE, used |-> k]
    ELSE read_end(reads, k + 1)

\* ---------------------------------------------------------------- scenarios

\* bool_t check_smtp_client_read_end(client_t *client)
check_smtp_client_read_end ==
    /\ sc.fn = "read_end" /\ sc.ret = "running"
    /\ LET r == read_end(sc.reads, 1) IN
        /\ r.done
        /\ sc' = [sc EXCEPT !.used = r.used,
                            !.ret = IF r.ret THEN "true" ELSE "false"]
    /\ UNCHANGED <<client, rel, ntls, tcpDown, tlsDown, gen, call, crashed>>

\* check_smtp_client_read_end is called on a session, over any script of reads.
InitReadEnd ==
    /\ client = [mem |-> "live", sockd |-> 1, status |-> 1, tls |-> NULL, ip |-> NULL,
                 buffer |-> 1]
    /\ rel = NoRel
    /\ ntls = 0
    /\ tcpDown = FALSE
    /\ tlsDown = FALSE
    /\ gen = 1
    /\ call = NoCall
    /\ sc \in {[NoScenario EXCEPT !.fn = "read_end", !.ret = "running", !.reads = rs] :
                rs \in ReadScripts}
    /\ crashed = FALSE

NextReadEnd == check_smtp_client_read_end

SpecReadEnd == InitReadEnd /\ [][NextReadEnd]_vars

\* ------------------------------------------------------------ SMTP commands

CmdHelo ==
    <<"H", "E", "L", "O", " ", "l", "o", "c", "a", "l", "h", "o", "s", "t", "\r", "\n">>
CmdEhlo ==
    <<"E", "H", "L", "O", " ", "l", "o", "c", "a", "l", "h", "o", "s", "t", "\r", "\n">>
CmdMailNull ==
    <<"M", "A", "I", "L", " ", "F", "R", "O", "M", ":", " ", "<", ">", "\r", "\n">>
CmdRcptPrincess ==
    <<"R", "C", "P", "T", " ", "T", "O", ":", " ", "<", "p", "r", "i", "n", "c", "e",
      "s", "s", "@", "e", "x", "a", "m", "p", "l", "e", ".", "c", "o", "m", ">", "\r",
      "\n">>
CmdData ==
    <<"D", "A", "T", "A", "\r", "\n">>
CmdQuit ==
    <<"Q", "U", "I", "T", "\r", "\n">>
CmdAuthLogin ==
    <<"A", "U", "T", "H", " ", "L", "O", "G", "I", "N", "\r", "\n">>
CmdDot ==
    <<".", "\r", "\n">>
message ==
    <<"T", "o", ":", " ", "m", "a", "g", "m", "a", "@", "l", "a", "v", "a", "b", "i",
      "t", ".", "c", "o", "m", "\r", "\n", "F", "r", "o", "m", ":", " ", "p", "r", "i",
      "n", "c", "e", "s", "s", "@", "e", "x", "a", "m", "p", "l", "e", ".", "c", "o",
      "m", "\r", "\n", "S", "u", "b", "j", "e", "c", "t", ":", " ", "U", "n", "i", "t",
      " ", "T", "e", "s", "t", "s", "\r", "\n", "\r", "\n", "A", "r", "e", "n", "'", "t",
      " ", "u", "n", "i", "t", " ", "t", "e", "s", "t", "s", " ", "g", "r", "e", "a",
      "t", "?", "\r", "\n", ".", "\r", "\n">>
line_from ==
    <<"M", "A", "I", "L", " ", "F", "R", "O", "M", ":", " ", "<", "%", "s", ">", "\r",
      "\n">>
line_to ==
    <<"R", "C", "P", "T", " ", "T", "O", ":", " ", "<", "%", "s", ">", "\r", "\n">>
FmtAuthPlain ==
    <<"A", "U", "T", "H", " ", "P", "L", "A", "I", "N", " ", "%", ".", "*", "s", "\r",
      "\n">>
FmtLine ==
    <<"%", ".", "*", "s", "\r", "\n">>
ConvS ==
    <<"%", "s">>
ConvCounted ==
    <<"%", ".", "*", "s">>
AddrLadar ==
    <<"l", "a", "d", "a", "r", "@", "l", "a", "v", "a", "b", "i", "t", ".", "c", "o",
      "m">>
AddrMagma ==
    <<"m", "a", "g", "m", "a", "@", "l", "a", "v", "a", "b", "i", "t", ".", "c", "o",
      "m">>
AddrPrincess ==
    <<"p", "r", "i", "n", "c", "e", "s", "s", "@", "e", "x", "a", "m", "p", "l", "e",
      ".", "c", "o", "m">>
UserMagma ==
    <<"b", "W", "F", "n", "b", "W", "E", "=">>
PassInvalid ==
    <<"a", "W", "5", "2", "Y", "W", "x", "p", "Z", "H", "B", "h", "c", "3", "N", "3",
      "b", "3", "J", "k">>
PassValid ==
    <<"c", "G", "F", "z", "c", "3", "d", "v", "c", "m", "Q", "=">>
PlainInvalid ==
    <<"b", "W", "F", "n", "b", "W", "E", "A", "b", "W", "F", "n", "b", "W", "E", "A",
      "a", "W", "5", "2", "Y", "W", "x", "p", "Z", "H", "B", "h", "c", "3", "N", "3",
      "b", "3", "J", "k">>
PlainValid ==
    <<"b", "W", "F", "n", "b", "W", "E", "A", "b", "W", "F", "n", "b", "W", "E", "A",
      "c", "G", "F", "z", "c", "3", "d", "v", "c", "m", "Q", "=">>
Tok220 ==
    <<"2", "2", "0">>
Tok221 ==
    <<"2", "2", "1">>
Tok235 ==
    <<"2", "3", "5">>
Tok250 ==
    <<"2", "5", "0">>
Tok334 ==
    <<"3", "3", "4">>
Tok354 ==
    <<"3", "5", "4">>
Tok550 ==
    <<"5", "5", "0">>
TokEsmtp ==
    <<" ", "E", "S", "M", "T", "P", " ">>

\* PLACER(s, n): the first n bytes of s.
PLACER(s, n) == SubSeq(s, 1, n)

\* The text client_print writes for a format with one conversion: the
\* conversion is replaced by the argument, every other byte is copied.
print_format(fmt, conv, arg) ==
    LET i == CHOOSE k \in 1..Len(fmt) : SubSeq(fmt, k, k + Len(conv) - 1) = conv
    IN  SubSeq(fmt, 1, i - 1) \o arg \o SubSeq(fmt, i + Len(conv), Len(fmt))

\* What client_write and client_print return for a text: its length when all
\* of it was sent, less after a short write, negative on an error.
WriteResults(cmd) == IF cmd = <<>> THEN {0} ELSE {-1, Len(cmd) - 1, Len(cmd)}

\* One exchange of a scenario: cmd is the text handed to client_write or
\* client_print (none for the banner), expect the count its result is compared
\* with, multi whether the response is read by check_smtp_client_read_end
\* (else by one client_read_line), token what the line must start with, search
\* what it must contain, and closes whether one more read must find no line.
Exchange(step, block, cmd, expect, multi, token) ==
    [step |-> step, block |-> block, cmd |-> cmd, expect |-> expect, multi |-> multi,
     token |-> token, search |-> <<>>, closes |-> FALSE]

\* Lines 117-134: check_smtp_client_quit.
QuitExchange ==
    [Exchange("quit", "quit", PLACER(CmdQuit, 6), 6, FALSE, Tok221) EXCEPT !.closes = TRUE]

\* Lines 34-61: check_smtp_client_mail_rcpt_data(client, from, to, errmsg).
mail_rcpt_data(block, from, to) ==
    LET size_from == Len(line_from) + Len(from) - 2
        size_to == Len(line_to) + Len(to) - 2
    IN  <<Exchange("mail", block, print_format(line_from, ConvS, from), size_from, TRUE,
                   Tok250),
          Exchange("rcpt", block, print_format(line_to, ConvS, to), size_to, TRUE, Tok250),
          Exchange("data", block, PLACER(CmdData, 6), 6, TRUE, Tok354)>>

\* Lines 72-81: check_smtp_client_auth_plain(client, auth).
auth_plain(block, auth) ==
    <<Exchange("auth_plain", block, print_format(FmtAuthPlain, ConvCounted, auth),
               Len(auth) + 13, TRUE, Tok235)>>

\* Lines 91-107: check_smtp_client_auth_login(client, user, pass).
auth_login(block, user, pass) ==
    <<Exchange("auth_login", block, PLACER(CmdAuthLogin, 12), 12, TRUE, Tok334),
      Exchange("auth_user", block, print_format(FmtLine, ConvCounted, user),
               Len(user) + 2, TRUE, Tok334),
      Exchange("auth_pass", block, print_format(FmtLine, ConvCounted, pass),
               Len(pass) + 2, TRUE, Tok235)>>

\* The banner exchange of both scenarios: nothing is written.
BannerExchange ==
    [Exchange("banner", "banner", <<>>, 0, FALSE, Tok220) EXCEPT !.search = TokEsmtp]

\* Lines 144-212: the exchanges of check_smtp_network_basic_sthread.
BasicSteps ==
    <<BannerExchange,
      Exchange("helo", "helo", PLACER(CmdHelo, 16), 16, FALSE, Tok250),
      Exchange("ehlo", "ehlo", PLACER(CmdEhlo, 16), 16, TRUE, Tok250),
      Exchange("mail", "mail", PLACER(CmdMailNull, 15), 15, FALSE, Tok250),
      Exchange("rcpt", "rcpt", PLACER(CmdRcptPrincess, 33), 33, FALSE, Tok250),
      Exchange("data", "data", PLACER(CmdData, 6), 6, FALSE, Tok354),
      Exchange("message", "message", PLACER(message, Len(message)), Len(message), FALSE,
               Tok250),
      QuitExchange>>

\* Lines 224-278: the exchanges of check_smtp_network_auth_sthread(login).
AuthSteps ==
    [login \in BOOLEAN |->
    <<BannerExchange,
      Exchange("ehlo", "ehlo", PLACER(CmdEhlo, 16), 16, TRUE, Tok250)>>
    \o (IF login THEN auth_login("bad", UserMagma, PassInvalid)
        ELSE auth_plain("bad", PlainInvalid))
    \o (IF login THEN auth_login("good", UserMagma, PassValid)
        ELSE auth_plain("good", PlainValid))
    \o mail_rcpt_data("unauth", AddrLadar, AddrPrincess)
    \o <<Exchange("dot", "unauth", CmdDot, 3, TRUE, Tok550)>>
    \o mail_rcpt_data("relay", AddrMagma, AddrPrincess)
    \o <<Exchange("dot", "relay", CmdDot, 3, TRUE, Tok250)>>
    \o <<QuitExchange>>]

\* What the reads of one exchange come to: ret is whether a line was obtained
\* (client_read_line(client) > 0, or check_smtp_client_read_end(client)), last
\* the read that ended them.
ReadLineResults == {[ret |-> rd.n > 0, last |-> rd] : rd \in ReadOutcomes}

ReadEndResults ==
    {[ret |-> read_end(rs, 1).ret, last |-> rs[Len(rs)]] :
        rs \in {q \in ReadScripts : read_end(q, 1).done /\ read_end(q, 1).used = Len(q)}}

\* No exchange has been run.
NoOutcome ==
    [step |-> "none", block |-> "none", fail |-> "none", w |-> 0, n |-> 0, line |-> <<>>,
     asked |-> FALSE, st |-> 0, afterRead |-> FALSE, after |-> 0]

\* One exchange whose status call is made but whose result is not compared.
exchange_ignores_status(x, w, rd, st, after) ==
    LET h == [NoOutcome EXCEPT !.step = x.step, !.block = x.block, !.w = w] IN
    IF x.cmd # <<>> /\ w # x.expect THEN [h EXCEPT !.fail = "write"]
    ELSE LET h1 == [h EXCEPT !.n = rd.last.n, !.line = rd.last.line] IN
    IF ~rd.ret THEN [h1 EXCEPT !.fail = "read"]
    ELSE LET h2 == [h1 EXCEPT !.asked = TRUE, !.st = st] IN
    IF ~StartsWith(h2.line, x.token) THEN [h2 EXCEPT !.fail = "token"]
    ELSE IF x.search # <<>> /\ ~Contains(h2.line, x.search) THEN [h2 EXCEPT !.fail = "search"]
    ELSE IF ~x.closes THEN h2
    ELSE LET h3 == [h2 EXCEPT !.afterRead = TRUE, !.after = after.n] IN
    IF after.n > 0 THEN [h3 EXCEPT !.fail = "open"] ELSE h3

\* One exchange, as each condition of the scenarios and their helpers evaluates
\* it, left to right: w is the result of the write, rd what the reads came to,
\* st the result of client_status, after the read that follows a QUIT response.
\* fail names the operand that ended the exchange.
exchange(x, w, rd, st, after) ==
    LET h == [NoOutcome EXCEPT !.step = x.step, !.block = x.block, !.w = w] IN
    IF x.cmd # <<>> /\ w # x.expect THEN [h EXCEPT !.fail = "write"]
    ELSE LET h1 == [h EXCEPT !.n = rd.last.n, !.line = rd.last.line] IN
    IF ~rd.ret THEN [h1 EXCEPT !.fail = "read"]
    ELSE LET h2 == [h1 EXCEPT !.asked = TRUE, !.st = st] IN
    IF st # 1 THEN [h2 EXCEPT !.fail = "status"]
    ELSE IF ~StartsWith(h2.line, x.token) THEN [h2 EXCEPT !.fail = "token"]
    ELSE IF x.search # <<>> /\ ~Contains(h2.line, x.search) THEN [h2 EXCEPT !.fail = "search"]
    ELSE IF ~x.closes THEN h2
    ELSE LET h3 == [h2 EXCEPT !.afterRead = TRUE, !.after = after.n] IN
    IF after.n > 0 THEN [h3 EXCEPT !.fail = "open"] ELSE h3

\* st_sprint(errmsg, text): the text replaces the content of the buffer errmsg
\* points to; nothing is written through a NULL pointer.
st_sprint(s, text) == IF s.errptr = "null" THEN s ELSE [s EXCEPT !.errmsg = text]

\* st_empty(errmsg): the pointer is NULL or the buffer holds no text.
st_empty(s) == s.errptr = "null" \/ s.errmsg = ""

\* The message check_smtp_client_quit records (lines 123, 129).
quit_message(h) ==
    IF h.fail = "open"
    THEN "The server failed to close the connection after issuing a QUIT command."
    ELSE "Failed to return successful status following the QUIT command."

\* The message check_smtp_client_mail_rcpt_data records (lines 42, 49, 56).
mail_rcpt_data_message(h) ==
    IF h.step = "mail" THEN "Failed to return successful status after MAIL."
    ELSE IF h.step = "rcpt" THEN "Failed to return successful status after RCPT."
    ELSE "Failed to return a proceed status code after DATA."

\* The message each failure branch of check_smtp_network_basic_sthread records.
basic_message(h) ==
    IF h.step = "banner" THEN "Failed to connect with the SMTP server."
    ELSE IF h.step = "helo" THEN "Failed to return successful status after HELO."
    ELSE IF h.step = "ehlo" THEN "Failed to return successful status after EHLO."
    ELSE IF h.step = "mail" THEN "Failed to return successful status after MAIL."
    ELSE IF h.step = "rcpt" THEN "Failed to return successful status after RCPT."
    ELSE IF h.step = "data" THEN "Failed to return a proceed status code after DATA."
    ELSE IF h.step = "message"
    THEN "Failed to get a successful status code after email submission."
    ELSE quit_message(h)

\* The error buffer after the failure branch of check_smtp_network_auth_sthread
\* that the failed exchange h belongs to has run.
auth_record(s, h) ==
    IF h.block = "banner" THEN st_sprint(s, "Failed to connect with the SMTP server.")
    ELSE IF h.block = "ehlo"
    THEN st_sprint(s, "Failed to return successful status after EHLO.")
    ELSE IF h.block = "bad"
    THEN st_sprint(s, "Invalid credentials appear to have authenticated when they should have failed.")
    ELSE IF h.block = "good"
    THEN st_sprint(s, "Failed to authenticate even though we supplied valid credentials.")
    ELSE IF h.block = "quit" THEN st_sprint(s, quit_message(h))
    ELSE LET s1 == IF h.step = "dot" THEN s ELSE st_sprint(s, mail_rcpt_data_message(h)) IN
    IF h.block = "unauth"
    THEN IF s1.errptr = "null"
         THEN st_sprint(s1, "Failed to return an error status after sending from an unauthenticated account.")
         ELSE s1
    ELSE IF st_empty(s1)
         THEN st_sprint(s1, "Failed to return successful status after sending from an authenticated account.")
         ELSE s1

\* A scenario about to start.
Start(fn, flag) == [NoScenario EXCEPT !.fn = fn, !.flag = flag, !.pc = 1, !.ret = "running"]

\* The scenario returns: client_close(client), then return ok.
Return(c, rel0, s, ok) ==
    /\ client' = IF c.mem = "live" THEN [c EXCEPT !.mem = "freed"] ELSE c
    /\ rel' = IF c.mem = "live" THEN close_effects(c, rel0).rel ELSE rel0
    /\ sc' = [s EXCEPT !.ret = IF ok THEN "true" ELSE "false"]

\* The scenario goes on with the exchange at position pc.
Goto(c, rel0, s, pc) ==
    /\ client' = c
    /\ rel' = rel0
    /\ sc' = [s EXCEPT !.pc = pc]

\* Every outcome of exchange x on session c: h is what the exchange saw, status
\* the session status it leaves.  tdown and sdown say whether the peer has reset
\* the connection or shut the TLS layer down.
Outcomes(c, x, tdown, sdown) ==
    UNION {UNION {
        {LET r == status_result(c, tlsP, tcpP)
             h == exchange(x, w, rd, r.ret, after)
         IN  [h |-> h, status |-> IF h.asked THEN r.status ELSE c.status] :
            w \in WriteResults(x.cmd),
            rd \in (IF x.multi THEN ReadEndResults ELSE ReadLineResults),
            after \in (IF x.closes THEN ReadOutcomes ELSE {ReadShutdown})} :
        tcpP \in (IF status_probes_tcp(c, tlsP) THEN tcp_status(tdown) ELSE {0})} :
        tlsP \in (IF status_probes_tls(c) THEN tls_status(sdown) ELSE {0})}

\* The scenario with exchange outcome h appended to what it has seen.
Seen(s, h) == [s EXCEPT !.hist = Append(@, h)]

\* A banner step that ended before its exchange, at operand kind.
BannerFailed(s, kind) ==
    st_sprint(Seen(s, [NoOutcome EXCEPT !.step = "banner", !.block = "banner",
                                        !.fail = kind]),
              "Failed to connect with the SMTP server.")

\* Lines 144-151 and 224-231: client_connect, then client_secure when secure,
\* then net_set_timeout when timeouts, then the banner exchange.
banner(secure, timeouts) ==
    \E r \in ConnectResults, tdown \in BOOLEAN :
        LET c0 == connect_session(r) IN
        /\ gen' = gen + 1
        /\ tlsDown' = FALSE
        /\ IF ~r.session
           THEN /\ Return(NoClient, NoRel, BannerFailed(sc, "connect"), FALSE)
                /\ ntls' = 0
                /\ tcpDown' = FALSE
           ELSE \E ctx \in (IF secure THEN tls_client_alloc(c0.sockd, 1) ELSE {NULL}) :
                \E tmo \in (IF timeouts THEN BOOLEAN ELSE {TRUE}) :
                LET sec == secure_result(c0, ctx)
                    c1 == IF secure
                          THEN [c0 EXCEPT !.tls = sec.tls, !.status = sec.status]
                          ELSE c0
                IN  /\ ntls' = IF c1.tls # NULL THEN 1 ELSE 0
                    /\ tcpDown' = tdown
                    /\ IF secure /\ sec.ret = -1
                       THEN Return(c1, NoRel, BannerFailed(sc, "secure"), FALSE)
                       ELSE IF ~tmo
                       THEN Return(c1, NoRel, BannerFailed(sc, "timeout"), FALSE)
                       ELSE \E o \in Outcomes(c1, BannerExchange, tdown, FALSE) :
                            LET c == [c1 EXCEPT !.status = o.status] IN
                            IF o.h.fail # "none"
                            THEN Return(c, NoRel,
                                        st_sprint(Seen(sc, o.h),
                                                  "Failed to connect with the SMTP server."),
                                        FALSE)
                            ELSE Goto(c, NoRel, Seen(sc, o.h), 2)

\* bool_t check_smtp_network_basic_sthread(stringer_t *errmsg, uint32_t port,
\* bool_t secure): one branch of its if / else-if chain per step.
check_smtp_network_basic_sthread ==
    /\ ~crashed
    /\ sc.fn = "basic" /\ sc.ret = "running"
    /\ IF sc.pc = 1
       THEN banner(sc.flag, TRUE)
       ELSE /\ \E o \in Outcomes(client, BasicSteps[sc.pc], tcpDown, tlsDown) :
                LET c == [client EXCEPT !.status = o.status]
                    s1 == Seen(sc, o.h)
                IN  IF o.h.fail # "none"
                    THEN Return(c, rel, st_sprint(s1, basic_message(o.h)), FALSE)
                    ELSE IF sc.pc = Len(BasicSteps)
                    THEN Return(c, rel, s1, TRUE)
                    ELSE Goto(c, rel, s1, sc.pc + 1)
            /\ UNCHANGED <<ntls, tcpDown, tlsDown, gen>>
    /\ UNCHANGED <<call, crashed>>

\* bool_t check_smtp_network_auth_sthread(stringer_t *errmsg, uint32_t port,
\* bool_t login): one exchange per step.  An exchange of the invalid-credentials
\* helper that fails makes the helper return false, and the scenario goes on to
\* the valid credentials (line 241); line 255 sets errmsg to NULL.
check_smtp_network_auth_sthread ==
    /\ ~crashed
    /\ sc.fn = "auth" /\ sc.ret = "running"
    /\ IF sc.pc = 1
       THEN banner(FALSE, FALSE)
       ELSE /\ LET steps == AuthSteps[sc.flag]
                   x == steps[sc.pc]
                   ends == sc.pc = Len(steps) \/ steps[sc.pc + 1].block # x.block
                   good == CHOOSE i \in 2..Len(steps) :
                               steps[i].block = "good" /\ steps[i - 1].block # "good"
               IN  \E o \in Outcomes(client, x, tcpDown, tlsDown) :
                   LET c == [client EXCEPT !.status = o.status]
                       s1 == Seen(sc, o.h)
                   IN  IF x.block = "bad"
                       THEN IF o.h.fail # "none" THEN Goto(c, rel, s1, good)
                            ELSE IF ends THEN Return(c, rel, auth_record(s1, o.h), FALSE)
                            ELSE Goto(c, rel, s1, sc.pc + 1)
                       ELSE IF o.h.fail # "none"
                       THEN Return(c, rel, auth_record(s1, o.h), FALSE)
                       ELSE IF sc.pc = Len(steps)
                       THEN Return(c, rel, s1, TRUE)
                       ELSE IF x.block = "good" /\ ends
                       THEN Goto(c, rel, [s1 EXCEPT !.errptr = "null"], sc.pc + 1)
                       ELSE Goto(c, rel, s1, sc.pc + 1)
            /\ UNCHANGED <<ntls, tcpDown, tlsDown, gen>>
    /\ UNCHANGED <<call, crashed>>

\* A test calls check_smtp_network_basic_sthread, over plain TCP or over TLS.
InitBasic ==
    /\ client = NoClient
    /\ rel = NoRel
    /\ ntls = 0
    /\ tcpDown = FALSE
    /\ tlsDown = FALSE
    /\ gen = 0
    /\ call = NoCall
    /\ sc \in {Start("basic", secure) : secure \in BOOLEAN}
    /\ crashed = FALSE

NextBasic ==
    \/ check_smtp_network_basic_sthread
    \/ peer_reset
    \/ peer_tls_shutdown

SpecBasic == InitBasic /\ [][NextBasic]_vars

\* A test calls check_smtp_network_auth_sthread, with AUTH PLAIN or AUTH LOGIN.
InitAuth ==
    /\ client = NoClient
    /\ rel = NoRel
    /\ ntls = 0
    /\ tcpDown = FALSE
    /\ tlsDown = FALSE
    /\ gen = 0
    /\ call = NoCall
    /\ sc \in {Start("auth", login) : login \in BOOLEAN}
    /\ crashed = FALSE

NextAuth ==
    \/ check_smtp_network_auth_sthread
    \/ peer_reset

SpecAuth == InitAuth /\ [][NextAuth]_vars

\* --------------------------------------------------------------------- claims

\* A call of op on the session the caller holds, which was live when called.
OnLive(op) == call.op = op /\ call.arg = "ptr" /\ call.pre.mem = "live"

\* C1: a client_status call made immediately after a successful client_connect
\* returns 1, and a client_status call made immediately after client_close on
\* that session returns -1.
C1_StatusAfterConnectAndClose ==
    [][/\ (call.op = "connect" /\ call.ret = 1 /\ call'.op = "status" /\ call'.arg = "ptr")
          => call'.ret = 1
       /\ (OnLive("close") /\ call'.op = "status" /\ call'.arg = "ptr")
          => call'.ret = -1]_vars

\* C2 as stated: over client_status, client_secure and read/write calls on one
\* session, once the stored status is -1 it is never again positive.
C2_MonotoneTowardError ==
    [][(client.mem = "live" /\ client.status = -1 /\ client'.mem = "live" /\ gen' = gen)
       => client'.status <= 0]_vars

\* C2 amended: once the stored status of a session is -1, client_status and
\* read/write calls never make it positive again; it becomes positive only by a
\* client_secure call that constructs a TLS context, which sets it to 1.
C2_MonotoneExceptSecure ==
    [][(client.mem = "live" /\ client.status = -1 /\ client'.mem = "live" /\ gen' = gen
        /\ client'.status > 0)
       => /\ call'.op = "secure" /\ call'.tlsAlloc = "made"
          /\ client'.status = 1]_vars

\* C2 witness: client_status ran on a session whose status was already -1 while
\* the transport is intact, and the status is still -1.
C2_Witness ==
    /\ OnLive("status") /\ call.pre.status = -1
    /\ ~tcpDown /\ client.mem = "live" /\ client.status = -1

\* C3: closing a session twice never releases the TLS context, the peer
\* address, the buffer or the session object twice and never closes the
\* descriptor twice.
C3_NoDoubleRelease == \A r \in DOMAIN rel : rel[r] <= 1

\* C4: every client_close call tears the TLS context down before it closes the
\* descriptor and closes the descriptor before it releases the read buffer, and
\* on a live session the TLS teardown runs while the descriptor is still open.
C4_CloseOrder ==
    call.op = "close" =>
        /\ \A i, j \in DOMAIN call.trace :
            /\ (call.trace[i].op = "tls_free" /\ call.trace[j].op = "close") => i < j
            /\ (call.trace[i].op = "close" /\ call.trace[j].op = "st_cleanup") => i < j
        /\ call.pre.mem = "live" =>
            \A i \in DOMAIN call.trace : call.trace[i].op = "tls_free" => call.trace[i].fdOpen

\* C4 witness: a session with a TLS context was closed, releasing all three.
C4_Witness ==
    /\ OnLive("close") /\ call.pre.tls # NULL
    /\ {call.trace[i].op : i \in DOMAIN call.trace}
        = {"tls_free", "close", "mm_cleanup", "st_cleanup", "mm_free"}

\* C5: client_secure on a session that already has a TLS context returns 0 and
\* leaves the TLS context, the descriptor and the status as they were, and
\* constructs no TLS context.
C5_SecureIdempotent ==
    [][(client.mem = "live" /\ client.tls # NULL /\ call'.op = "secure" /\ call'.arg = "ptr")
       => /\ call'.ret = 0
          /\ client' = client
          /\ ntls' = ntls]_vars

\* C5 witness: client_secure returned from a session that had a TLS context.
C5_Witness ==
    /\ OnLive("secure") /\ call.pre.tls # NULL
    /\ call.ret = 0 /\ client = call.pre

\* C6: client_secure returns -1 for an absent session and when the TLS context
\* cannot be constructed; after client_secure returned -1 on an existing session
\* the stored status is -1 and the session holds no TLS context.
C6_SecureFailure ==
    call.op = "secure" =>
        /\ call.arg = "null" => call.ret = -1
        /\ (call.arg = "ptr" /\ call.pre.mem = "live") =>
            /\ call.tlsAlloc = "failed" => call.ret = -1
            /\ call.ret = -1 => (client.status = -1 /\ client.tls = NULL)

\* C6 witness: construction failed on a session whose status was 1.
C6_Witness ==
    /\ OnLive("secure") /\ call.tlsAlloc = "failed" /\ call.pre.status = 1
    /\ call.ret = -1 /\ client.status = -1 /\ client.tls = NULL

\* C7: when client_secure constructs a TLS context it returns 0 and the stored
\* status is 1, whatever the status was before.
C7_SecureSuccess ==
    (OnLive("secure") /\ call.tlsAlloc = "made") =>
        /\ call.ret = 0
        /\ client.status = 1
        /\ client.tls # NULL

\* C7 witness: a TLS context was constructed on a session whose status was -1.
C7_Witness ==
    /\ OnLive("secure") /\ call.tlsAlloc = "made" /\ call.pre.status = -1
    /\ call.ret = 0 /\ client.status = 1

\* C8: whenever the applicable probe (the TLS probe on a session with a TLS
\* context, otherwise the TCP probe) returns a result other than the neutral 0,
\* client_status returns -1 and the stored status is -1.
C8_ProbeFailureForcesError ==
    (/\ OnLive("status")
     /\ \/ call.pre.tls # NULL /\ call.tlsAsked /\ call.tlsP # 0
        \/ call.pre.tls = NULL /\ call.tcpAsked /\ call.tcpP # 0)
    => (call.ret = -1 /\ client.status = -1)

\* The probe C9 calls applicable returned the neutral result in the last call.
NeutralProbe ==
    \/ call.pre.tls # NULL /\ call.tlsAsked /\ call.tlsP = 0
    \/ call.pre.tls = NULL /\ call.pre.sockd # NoSock /\ call.tcpAsked /\ call.tcpP = 0

\* C9: when the cached status is non-negative and the applicable probe returns
\* 0, client_status returns the cached status and leaves the session as it was.
C9_NeutralProbeKeepsStatus ==
    (OnLive("status") /\ call.pre.status >= 0 /\ NeutralProbe)
    => (call.ret = call.pre.status /\ client = call.pre)

\* C9 witness: a neutral TLS probe on a session whose cached status is 2.
C9_Witness ==
    /\ OnLive("status") /\ call.pre.status = 2 /\ NeutralProbe /\ call.pre.tls # NULL
    /\ call.ret = 2 /\ client = call.pre

Accepting == {"v4", "v6", "other"}

\* C11: on every failing path of client_connect no session is returned, every
\* socket the call created has been closed, the resolver's address list has been
\* freed and no captured peer address is left allocated.
C11_ConnectFailureReleases ==
    (call.op = "connect" /\ ~call.conn.session) =>
        /\ call.ret = 0 /\ client = NoClient
        /\ \A s \in 1..call.conn.created : call.conn.closes[s] >= 1
        /\ call.conn.info => call.conn.freeaddr = 1
        /\ call.conn.ipAlloc = call.conn.ipFree
        /\ call.conn.objAlloc = call.conn.objFree

\* C11 witness: a candidate was refused, the next one accepted and its address
\* was captured, and then the allocation of the session failed.
C11_Witness ==
    /\ call.op = "connect" /\ ~call.conn.session
    /\ call.conn.created = 2 /\ call.conn.ret = 0
    /\ call.conn.ipAlloc = 1 /\ call.conn.ipFree = 1
    /\ call.conn.closes = <<1, 1>> /\ call.conn.freeaddr = 1

\* C12: client_connect tries the candidates in the resolver's order, each once,
\* and stops at the first one that accepts: the session's descriptor is the
\* socket connected to it, still open, and no later candidate is attempted.
C12_FirstSuccessWins ==
    call.op = "connect" =>
        /\ \A k \in DOMAIN call.conn.attempts : call.conn.attempts[k] = k
        /\ \A k \in DOMAIN call.conn.kinds :
            call.conn.kinds[k] \in Accepting => k = Len(call.conn.kinds)
        /\ call.conn.session =>
            /\ call.conn.kinds # <<>>
            /\ call.conn.kinds[Len(call.conn.kinds)] \in Accepting
            /\ client.sockd = Len(call.conn.attempts)
            /\ call.conn.closes[client.sockd] = 0

\* C12 witness: the first candidate accepted and became the session, and the
\* record after it was never tried.
C12_Witness ==
    /\ call.op = "connect" /\ call.conn.session
    /\ call.conn.untried /\ call.conn.attempts = <<1>>
    /\ call.conn.kinds[1] \in Accepting /\ client.sockd = 1

\* C19: within one client_connect call every socket it creates is closed at
\* most once.
C19_ConnectClosesOnce ==
    call.op = "connect" => \A s \in 1..call.conn.created : call.conn.closes[s] <= 1

\* The line of a read is terminal: its three-byte status field is followed by a
\* space.
Terminal(rd) == rd.n > 0 /\ Len(rd.line) >= 4 /\ rd.line[4] = " "

\* The check of the script is over at its k-th read: a terminal line, or a
\* read that returned no line.
Stops(rd) == Terminal(rd) \/ rd.n <= 0

\* C13: check_smtp_client_read_end reads line after line and returns at the
\* first read that yields a terminal line or no line, consuming nothing beyond
\* it; it returns true exactly when that read yielded a terminal line.
C13_ReadEndTerminal ==
    (sc.fn = "read_end" /\ sc.ret # "running") =>
        /\ Stops(sc.reads[sc.used])
        /\ \A k \in 1..(sc.used - 1) : ~Stops(sc.reads[k])
        /\ (sc.ret = "true") <=> Terminal(sc.reads[sc.used])

\* The scripts that differ from rs only in bytes outside the line views.
SameLines(rs) ==
    {alt \in ReadScripts :
        /\ Len(alt) = Len(rs)
        /\ \A k \in DOMAIN rs : alt[k].n = rs[k].n /\ alt[k].line = rs[k].line}

\* C20: check_smtp_client_read_end never takes a line shorter than four bytes
\* for the terminal line, and its result and the reads it makes do not depend
\* on any byte of the read buffer outside the current line.
C20_ReadEndWithinLine ==
    (sc.fn = "read_end" /\ sc.ret # "running") =>
        /\ sc.ret = "true" => Len(sc.reads[sc.used].line) >= 4
        /\ \A alt \in SameLines(sc.reads) :
            LET r == read_end(alt, 1) IN
            r.done /\ r.used = sc.used /\ (r.ret <=> sc.ret = "true")

\* The steps of the basic scenario: the command literal of each and the token
\* its response must begin with.
BasicProtocol ==
    <<[step |-> "banner", cmd |-> <<>>, token |-> Tok220],
      [step |-> "helo", cmd |-> CmdHelo, token |-> Tok250],
      [step |-> "ehlo", cmd |-> CmdEhlo, token |-> Tok250],
      [step |-> "mail", cmd |-> CmdMailNull, token |-> Tok250],
      [step |-> "rcpt", cmd |-> CmdRcptPrincess, token |-> Tok250],
      [step |-> "data", cmd |-> CmdData, token |-> Tok354],
      [step |-> "message", cmd |-> message, token |-> Tok250],
      [step |-> "quit", cmd |-> CmdQuit, token |-> Tok221]>>

\* C14: check_smtp_network_basic_sthread returns true only if every step, in
\* order banner, HELO, EHLO, MAIL FROM, RCPT TO, DATA, message body, QUIT, saw
\* the write return the length of the command literal, the read return a line,
\* client_status return 1 and the line begin with the expected token, the
\* banner line holding " ESMTP " too.
C14_BasicTrueOnlyIfEveryStepPassed ==
    (sc.fn = "basic" /\ sc.ret = "true") =>
        /\ Len(sc.hist) = Len(BasicProtocol)
        /\ \A k \in 1..Len(BasicProtocol) :
            LET h == sc.hist[k]
                p == BasicProtocol[k]
            IN  /\ h.step = p.step
                /\ h.w = Len(p.cmd)
                /\ h.n > 0 /\ h.n = Len(h.line)
                /\ h.asked /\ h.st = 1
                /\ StartsWith(h.line, p.token)
        /\ Contains(sc.hist[1].line, TokEsmtp)

\* The basic scenario returned true over TLS, after a QUIT whose next read
\* found the connection shut down.
C14_Witness ==
    /\ sc.fn = "basic" /\ sc.ret = "true" /\ sc.flag
    /\ Len(sc.hist) = 8 /\ sc.hist[8].afterRead /\ sc.hist[8].after = 0
    /\ sc.hist[2].line = LineMore
    /\ client.mem = "freed" /\ rel.tls = 1

\* The exchange failed as a step of its scenario.  The last exchange with the
\* invalid credentials is expected to end on a token other than 235, and fails
\* on anything else; every other exchange fails unless all its checks passed.
StepFailed(h) ==
    IF h.block = "bad" /\ h.step \in {"auth_plain", "auth_pass"}
    THEN h.fail # "token"
    ELSE h.fail # "none"

\* Some step of the scenario has failed.
Failed(s) == \E k \in 1..Len(s.hist) : StepFailed(s.hist[k])

\* C15: in both scenarios, once a step has failed no further exchange is run
\* (nothing more is written or read), the session is closed and the function
\* returns false.
C15_FailureEndsScenario ==
    [][/\ Failed(sc) => sc'.hist = sc.hist
       /\ Failed(sc') => (sc'.ret = "false" /\ client'.mem # "live")]_vars

\* C16: whenever a scenario returns false, the caller's error-message buffer
\* holds a message.
C16_FalseCarriesMessage ==
    (sc.fn \in {"basic", "auth"} /\ sc.ret = "false") => sc.errmsg # ""

\* C17: check_smtp_client_quit returns true only if the response to QUIT begins
\* with 221 and the read after it returned 0, an orderly shutdown.
C17_QuitNeedsShutdown ==
    (sc.fn = "basic" /\ sc.ret = "true") =>
        LET h == sc.hist[Len(sc.hist)] IN
        /\ h.step = "quit"
        /\ StartsWith(h.line, Tok221)
        /\ h.afterRead /\ h.after = 0

\* The exchanges of block b that the scenario has run, in order.
Ran(s, b) == SelectSeq(s.hist, LAMBDA h : h.block = b)

\* The exchange received a terminal response line.
Answered(h) == h.fail \notin {"write", "read"} /\ h.n > 0 /\ Len(h.line) >= 4 /\ h.line[4] = " "

\* C18: check_smtp_network_auth_sthread returns true only if the AUTH exchange
\* with the invalid credentials ran to its terminal response, which did not
\* begin with 235, and the AUTH exchange with the valid credentials ended on
\* 235 (under AUTH LOGIN after 334 and 334).
C18_InvalidCredentialsRejected ==
    (sc.fn = "auth" /\ sc.ret = "true") =>
        LET bad == Ran(sc, "bad")
            good == Ran(sc, "good")
            last == IF sc.flag THEN "auth_pass" ELSE "auth_plain"
        IN  /\ bad # <<>>
            /\ bad[Len(bad)].step = last
            /\ Answered(bad[Len(bad)])
            /\ ~StartsWith(bad[Len(bad)].line, Tok235)
            /\ good # <<>>
            /\ good[Len(good)].step = last
            /\ StartsWith(good[Len(good)].line, Tok235)
            /\ sc.flag => /\ Len(good) = 3
                          /\ StartsWith(good[1].line, Tok334)
                          /\ StartsWith(good[2].line, Tok334)

====
